---- MODULE Spec2Model ----
(***************************************************************************)
(* Model of the Responsive widget (widget/src/lazy/responsive.rs): the     *)
(* content cache (Content::update / layout / resolve), the forwarding      *)
(* operations of the Widget impl, and the self-referencing Overlay that    *)
(* keeps the RefMut borrows of the content and of the state tree alive.    *)
(***************************************************************************)
EXTENDS Integers, Sequences, FiniteSets, TLC

\* ------------------------------------------------------------------ bounds
MaxWidth == 1
MaxResolves == 3
MaxMsgs == 2

\* ------------------------------------------------------------- value sets
\* Size { width, height }
Sizes == [width : 0..MaxWidth, height : {0}]

\* Size::ZERO
ZERO == [width |-> 0, height |-> 0]

\* Option<T>: None is the empty sequence, Some(x) the one-element sequence.
None == << >>
Some(x) == << x >>

\* tree::Tag::stateless()
Stateless == "stateless"

\* The widgets a `view` closure may return, by what the cache can observe of
\* them: the tag and the number of children their state tree node gets, and
\* whether their overlay query can produce an overlay.
Kinds ==
    { [tag |-> Stateless,   children |-> 0, overlay |-> FALSE],
      [tag |-> Stateless,   children |-> 0, overlay |-> TRUE],
      [tag |-> "pick_list", children |-> 0, overlay |-> TRUE],
      [tag |-> Stateless,   children |-> 1, overlay |-> TRUE] }

\* The `view` closures, by the kind of widget at the root of what they build
\* below the breakpoint (width 0) and above it. The closures taken here build
\* the same kind of root on both sides; New may change the closure.
Views == {[narrow |-> k, wide |-> k] : k \in Kinds}

\* The messages on a Shell, named by who published them and in which
\* position: the first k messages of the caller, or of the subtree.
Published(who, k) == [i \in 1..k |-> [by |-> who, nr |-> i]]

\* Shell::new(&mut messages): no message, layout valid.
NewShell(messages) == [messages |-> messages, layout_invalid |-> FALSE]

\* ------------------------------------------------------------------ state
VARIABLES
    view,        \* Responsive.view: the builder closure
    content,     \* Responsive.content: Content { size, layout, element }
    tree,        \* State.tree: the state tree node of the content
    borrows,     \* live RefMut guards of the two RefCells
    overlay,     \* the Overlay object handed out by Responsive::overlay, if alive
    panicked,    \* a borrow_mut() found the cell already borrowed
    shell,       \* the caller's Shell of the event dispatch just made, if any
    reconciled,  \* observer: has tree.diff run, and against which subtree
    hist,        \* observer: resolves and builder calls of this widget instance
    last         \* observer: what the most recent call did

vars == << view, content, tree, borrows, overlay, panicked, shell,
           reconciled, hist, last >>


\* -------------------------------------------------- external collaborators
\* Element::new(horizontal_space().width(0)): the placeholder subtree of a new
\* Content; not built by `view`, a stateless widget without children.
Placeholder ==
    [inst |-> 0, for |-> None, tag |-> Stateless, children |-> 0, overlay |-> FALSE]

\* Tree::empty(): the state tree node of a widget that was never diffed.
EmptyTree == [tag |-> Stateless, children |-> 0]

\* view(new_size): the n-th subtree built by closure v for this widget.
View(v, new_size, n) ==
    LET k == IF new_size.width = 0 THEN v.narrow ELSE v.wide
    IN  [inst |-> n, for |-> Some(new_size), tag |-> k.tag,
         children |-> k.children, overlay |-> k.overlay]

\* tree.diff(&mut element): a node of the same structural identity is kept,
\* any other node is replaced by a fresh node of the subtree's shape.
Diff(t, e) ==
    IF t.tag = e.tag /\ t.children = e.children
    THEN t
    ELSE [tag |-> e.tag, children |-> e.children]

\* layout::Limits::new(min, max)
Limits(min, max) == [min |-> min, max |-> max]

\* element.as_widget().layout(tree, renderer, &limits): the layout node of
\* subtree e under the given limits.
ElementLayout(e, limits) ==
    [elem |-> e.inst, min |-> limits.min, max |-> limits.max]

\* shell.merge(other, identity): the other shell's messages are appended and
\* its layout invalidation is carried over.
ShellMerge(outer, other) ==
    [messages |-> outer.messages \o other.messages,
     layout_invalid |-> outer.layout_invalid \/ other.layout_invalid]

\* Variant: the cell is entered without the borrow check.
BorrowMutOk_Unchecked(n) == TRUE

\* RefCell::borrow_mut() succeeds only on a cell with no live borrow (n live
\* guards); otherwise it panics.
BorrowMutOk(n) == n = 0

\* ------------------------------------------------------------ Content cache
\* is_tree_empty of Content::update
IsTreeEmpty(t) == t.tag = Stateless /\ t.children = 0

\* Variant: the rebuild does not store the size it built for.
ContentUpdate_KeepsSize(c, t, new_size, v, n) ==
    IF ~IsTreeEmpty(t) /\ c.size = new_size
    THEN [content |-> c, tree |-> t, steps |-> << >>]
    ELSE LET e == View(v, new_size, n)
         IN  [content |-> [size |-> c.size, layout |-> None, element |-> e],
              tree |-> Diff(t, e),
              steps |-> << "view", "diff" >>]

\* Variant: the rebuild does not clear the cached layout.
ContentUpdate_KeepsLayout(c, t, new_size, v, n) ==
    IF ~IsTreeEmpty(t) /\ c.size = new_size
    THEN [content |-> c, tree |-> t, steps |-> << >>]
    ELSE LET e == View(v, new_size, n)
         IN  [content |-> [size |-> new_size, layout |-> c.layout, element |-> e],
              tree |-> Diff(t, e),
              steps |-> << "view", "diff" >>]

\* Variant: the rebuild is decided by the size alone.
ContentUpdate_SizeOnly(c, t, new_size, v, n) ==
    IF c.size = new_size
    THEN [content |-> c, tree |-> t, steps |-> << >>]
    ELSE LET e == View(v, new_size, n)
         IN  [content |-> [size |-> new_size, layout |-> None, element |-> e],
              tree |-> Diff(t, e),
              steps |-> << "view", "diff" >>]

\* Content::update(tree, new_size, view); n numbers the subtree it may build.
ContentUpdate(c, t, new_size, v, n) ==
    IF ~IsTreeEmpty(t) /\ c.size = new_size
    THEN [content |-> c, tree |-> t, steps |-> << >>]
    ELSE LET e == View(v, new_size, n)
         IN  [content |-> [size |-> new_size, layout |-> None, element |-> e],
              tree |-> Diff(t, e),
              steps |-> << "view", "diff" >>]

\* Variant: the layout is computed when the slot is filled, not when it is
\* empty.
ContentLayout_WhenPresent(c) ==
    IF c.layout # None
    THEN [content |-> [c EXCEPT !.layout =
                          Some(ElementLayout(c.element, Limits(ZERO, c.size)))],
          steps |-> << "layout" >>]
    ELSE [content |-> c, steps |-> << >>]

\* Content::layout(tree, renderer)
ContentLayout(c) ==
    IF c.layout = None
    THEN [content |-> [c EXCEPT !.layout =
                          Some(ElementLayout(c.element, Limits(ZERO, c.size)))],
          steps |-> << "layout" >>]
    ELSE [content |-> c, steps |-> << >>]

\* Variant: the layout is computed before the content is updated.
ContentResolve_LayoutFirst(c, t, new_size, v, n) ==
    LET l == ContentLayout(c)
        u == ContentUpdate(l.content, t, new_size, v, n)
    IN  [content |-> [u.content EXCEPT !.layout = l.content.layout],
         tree |-> u.tree,
         steps |-> l.steps \o u.steps,
         unwrap |-> l.content.layout]

\* Content::resolve(tree, renderer, layout, view, f) up to the call of f:
\* update, layout, then the unwrap of the layout slot.
ContentResolve(c, t, new_size, v, n) ==
    LET u == ContentUpdate(c, t, new_size, v, n)
        l == ContentLayout(u.content)
    IN  [content |-> l.content, tree |-> u.tree,
         steps |-> u.steps \o l.steps,
         unwrap |-> l.content.layout]


\* ---------------------------------------------------------------- observers
Ran(steps, name) == \E i \in 1..Len(steps) : steps[i] = name

Built(steps) == Ran(steps, "view")

\* The record of one call: the operation, the size of its bounds, the steps it
\* ran, the content right after its resolve step, and for an event dispatch
\* the caller's shell before the call and what the callee raised.
Call(op, size, steps, resolved, pre, local, nested, returned) ==
    [op |-> op, size |-> size, steps |-> steps, resolved |-> resolved,
     pre |-> pre, emitted |-> local.messages, inval |-> local.layout_invalid,
     nested |-> nested, returned |-> returned]

Quiet == NewShell(<< >>)

\* Per widget instance: whether it started on a state tree that was never
\* diffed, the sizes it was resolved at (one size, or Sizes once they differ),
\* the size of the latest resolve, and the number of resolves and of builder
\* calls.
Observe(h, size, steps) ==
    [pristine |-> h.pristine,
     sizes |-> IF h.sizes \subseteq {size} THEN {size} ELSE Sizes,
     prev |-> Some(size),
     resolves |-> h.resolves + 1,
     builds |-> h.builds + (IF Built(steps) THEN 1 ELSE 0)]

\* tree.diff ran against the subtree just built.
Reconcile(rec, steps, c) ==
    IF Ran(steps, "diff") THEN [ever |-> TRUE, inst |-> c.element.inst] ELSE rec

\* --------------------------------------------------------------------- Init
\* Responsive::new(view): Content { size: ZERO, layout: None, element: space }
NewContent == [size |-> ZERO, layout |-> None, element |-> Placeholder]

Init ==
    /\ view \in Views
    /\ content = NewContent
    /\ tree = EmptyTree
    /\ borrows = [content |-> 0, tree |-> 0]
    /\ overlay = None
    /\ panicked = FALSE
    /\ shell = Quiet
    /\ reconciled = [ever |-> FALSE, inst |-> 0]
    /\ hist = [pristine |-> TRUE, sizes |-> {}, prev |-> None,
               resolves |-> 0, builds |-> 0]
    /\ last = Call("new", None, << >>, None, Quiet, Quiet, FALSE, "n/a")

\* ------------------------------------------------------------------ actions
\* borrow_mut() on a cell that is already borrowed: the call panics at the
\* acquisition, before it touches the cache.
Abort(op, size, pre) ==
    /\ panicked' = TRUE
    /\ last' = Call(op, Some(size), << >>, None, pre, Quiet, FALSE, "panic")
    /\ shell' = pre
    /\ UNCHANGED << view, content, tree, borrows, overlay, reconciled, hist >>

\* The forwarding operations that only resolve and call the subtree:
\* borrow both cells, Content::resolve, forward, drop the guards.
Forward(op, size) ==
    /\ ~panicked
    /\ hist.resolves < MaxResolves
    /\ IF BorrowMutOk(borrows.content) /\ BorrowMutOk(borrows.tree)
       THEN \E r \in {ContentResolve(content, tree, size, view, hist.builds + 1)} :
            LET steps == r.steps \o (IF r.unwrap = None THEN << >> ELSE << "forward" >>)
            IN  /\ content' = r.content
                /\ tree' = r.tree
                /\ panicked' = (r.unwrap = None)
                /\ reconciled' = Reconcile(reconciled, r.steps, r.content)
                /\ hist' = Observe(hist, size, r.steps)
                /\ last' = Call(op, Some(size), steps, Some(r.content),
                                Quiet, Quiet, FALSE, "n/a")
                /\ shell' = Quiet
                /\ UNCHANGED << view, borrows, overlay >>
       ELSE Abort(op, size, Quiet)

Operate == \E size \in Sizes : Forward("operate", size)

Draw == \E size \in Sizes : Forward("draw", size)

MouseInteraction == \E size \in Sizes : Forward("mouse_interaction", size)

DragDestinations == \E size \in Sizes : Forward("drag_destinations", size)

\* Variant: the layout survives an invalidation raised by the subtree.
ResponsiveOnEvent_KeepsLayout(c, t, size, v, n, pre, local) ==
    LET r == ContentResolve(c, t, size, v, n)
        raised == IF r.unwrap = None THEN Quiet ELSE local
    IN  [content |-> r.content,
         tree |-> r.tree,
         steps |-> r.steps \o (IF r.unwrap = None THEN << >> ELSE << "forward" >>),
         unwrap |-> r.unwrap,
         resolved |-> r.content,
         raised |-> raised,
         shell |-> IF r.unwrap = None THEN pre ELSE ShellMerge(pre, raised)]

\* Variant: the local shell is dropped without being merged.
ResponsiveOnEvent_NoMerge(c, t, size, v, n, pre, local) ==
    LET r == ContentResolve(c, t, size, v, n)
        raised == IF r.unwrap = None THEN Quiet ELSE local
    IN  [content |-> IF r.unwrap # None /\ raised.layout_invalid
                     THEN [r.content EXCEPT !.layout = None]
                     ELSE r.content,
         tree |-> r.tree,
         steps |-> r.steps \o (IF r.unwrap = None THEN << >> ELSE << "forward" >>),
         unwrap |-> r.unwrap,
         resolved |-> r.content,
         raised |-> raised,
         shell |-> pre]

\* Variant: the layout invalidation is consumed by the widget, only the
\* messages of the local shell reach the caller.
ResponsiveOnEvent_SwallowsInvalid(c, t, size, v, n, pre, local) ==
    LET r == ContentResolve(c, t, size, v, n)
        raised == IF r.unwrap = None THEN Quiet ELSE local
    IN  [content |-> IF r.unwrap # None /\ raised.layout_invalid
                     THEN [r.content EXCEPT !.layout = None]
                     ELSE r.content,
         tree |-> r.tree,
         steps |-> r.steps \o (IF r.unwrap = None THEN << >> ELSE << "forward" >>),
         unwrap |-> r.unwrap,
         resolved |-> r.content,
         raised |-> raised,
         shell |-> IF r.unwrap = None THEN pre
                   ELSE ShellMerge(pre, NewShell(raised.messages))]

\* Responsive::on_event from the resolve to the merge, given the caller's
\* shell `pre` and what the subtree raises on the local shell. The unwrap of
\* an absent layout panics before the subtree is called.
ResponsiveOnEvent(c, t, size, v, n, pre, local) ==
    LET r == ContentResolve(c, t, size, v, n)
        raised == IF r.unwrap = None THEN Quiet ELSE local
    IN  [content |-> IF r.unwrap # None /\ raised.layout_invalid
                     THEN [r.content EXCEPT !.layout = None]
                     ELSE r.content,
         tree |-> r.tree,
         steps |-> r.steps \o (IF r.unwrap = None THEN << >> ELSE << "forward" >>),
         unwrap |-> r.unwrap,
         resolved |-> r.content,
         raised |-> raised,
         shell |-> IF r.unwrap = None THEN pre ELSE ShellMerge(pre, raised)]

OnEvent ==
    \E size \in Sizes, before \in 0..MaxMsgs, stale \in BOOLEAN :
        LET pre == [messages |-> Published("caller", before), layout_invalid |-> stale]
        IN  /\ ~panicked
            /\ hist.resolves < MaxResolves
            /\ IF BorrowMutOk(borrows.content) /\ BorrowMutOk(borrows.tree)
               THEN \E inval \in BOOLEAN, emitted \in 0..(MaxMsgs - before) :
                      \E r \in {ResponsiveOnEvent(content, tree, size, view,
                                    hist.builds + 1, pre,
                                    [messages |-> Published("subtree", emitted),
                                     layout_invalid |-> inval])} :
                          /\ content' = r.content
                          /\ tree' = r.tree
                          /\ shell' = r.shell
                          /\ panicked' = (r.unwrap = None)
                          /\ reconciled' = Reconcile(reconciled, r.steps, r.resolved)
                          /\ hist' = Observe(hist, size, r.steps)
                          /\ last' = Call("on_event", Some(size), r.steps,
                                          Some(r.resolved), pre, r.raised, FALSE, "n/a")
                          /\ UNCHANGED << view, borrows, overlay >>
               ELSE Abort("on_event", size, pre)

\* --------------------------------------------------------------- overlay
\* Variant: the Overlay is returned whether or not it holds a nested overlay.
OverlayReturn_Always(nested) == Some([nested |-> nested])

\* The end of Responsive::overlay: an Overlay whose nested overlay is present
\* is boxed and returned, any other is dropped.
OverlayReturn(nested) ==
    IF nested THEN Some([nested |-> TRUE]) ELSE None

\* Responsive::overlay: both RefMut guards move into the OverlayBuilder, the
\* overlay_builder closure updates and lays out the content and asks the
\* subtree for its overlay.
Overlay ==
    \E size \in Sizes, open \in BOOLEAN :
        /\ ~panicked
        /\ hist.resolves < MaxResolves
        /\ IF BorrowMutOk(borrows.content) /\ BorrowMutOk(borrows.tree)
           THEN \E r \in {ContentResolve(content, tree, size, view, hist.builds + 1)} :
                LET nested == r.unwrap # None /\ r.content.element.overlay /\ open
                    ret == IF r.unwrap = None THEN None ELSE OverlayReturn(nested)
                IN  /\ content' = r.content
                    /\ tree' = r.tree
                    /\ panicked' = (r.unwrap = None)
                    /\ overlay' = ret
                    /\ borrows' = IF ret = None
                                  THEN borrows
                                  ELSE [content |-> borrows.content + 1,
                                        tree |-> borrows.tree + 1]
                    /\ reconciled' = Reconcile(reconciled, r.steps, r.content)
                    /\ hist' = Observe(hist, size, r.steps)
                    /\ last' = Call("overlay", Some(size),
                                    r.steps \o (IF r.unwrap = None THEN << >>
                                                ELSE << "forward" >>),
                                    Some(r.content), Quiet, Quiet, nested,
                                    IF ret = None THEN "none" ELSE "some")
                    /\ shell' = Quiet
                    /\ UNCHANGED << view >>
           ELSE Abort("overlay", size, Quiet)

\* Overlay::on_event: the nested overlay is given the caller's shell itself;
\* the layout slot is cleared through the back-reference when that shell is
\* layout-invalid after the call.
OverlayEvent(ov, c, pre, local) ==
    LET after == IF ov[1].nested THEN ShellMerge(pre, local) ELSE pre
        is_layout_invalid == ov[1].nested /\ after.layout_invalid
    IN  [content |-> IF is_layout_invalid THEN [c EXCEPT !.layout = None] ELSE c,
         raised |-> IF ov[1].nested THEN local ELSE Quiet,
         shell |-> after]

OverlayOnEvent ==
    \E before \in 0..MaxMsgs, stale \in BOOLEAN, inval \in BOOLEAN :
      \E emitted \in 0..(MaxMsgs - before) :
        /\ ~panicked
        /\ overlay # None
        /\ LET pre == [messages |-> Published("caller", before), layout_invalid |-> stale]
               local == [messages |-> Published("subtree", emitted), layout_invalid |-> inval]
           IN  \E r \in {OverlayEvent(overlay, content, pre, local)} :
               /\ content' = r.content
               /\ shell' = r.shell
               /\ last' = Call("overlay.on_event", None, << "forward" >>, None,
                               pre, r.raised, overlay[1].nested, "n/a")
        /\ UNCHANGED << view, tree, borrows, overlay, panicked, reconciled, hist >>

\* Overlay::layout, draw, mouse_interaction, is_over, operate: forwarded to
\* the nested overlay, the cache is not touched.
OverlayForward ==
    \E op \in {"overlay.layout", "overlay.draw", "overlay.mouse_interaction",
               "overlay.is_over", "overlay.operate"} :
        /\ ~panicked
        /\ overlay # None
        /\ last' = Call(op, None, << "forward" >>, None, Quiet, Quiet,
                        overlay[1].nested, "n/a")
        /\ shell' = Quiet
        /\ UNCHANGED << view, content, tree, borrows, overlay, panicked,
                        reconciled, hist >>

\* Variant: the overlay object goes away with its guards still held.
OverlayDrop_KeepsGuards ==
    /\ ~panicked
    /\ overlay # None
    /\ overlay' = None
    /\ last' = Call("overlay.drop", None, << >>, None, Quiet, Quiet, FALSE, "n/a")
    /\ shell' = Quiet
    /\ UNCHANGED << view, content, tree, borrows, panicked, reconciled, hist >>

\* The overlay element is dropped: both RefMut guards are released.
OverlayDrop ==
    /\ ~panicked
    /\ overlay # None
    /\ overlay' = None
    /\ borrows' = [content |-> borrows.content - 1, tree |-> borrows.tree - 1]
    /\ last' = Call("overlay.drop", None, << >>, None, Quiet, Quiet, FALSE, "n/a")
    /\ shell' = Quiet
    /\ UNCHANGED << view, content, tree, panicked, reconciled, hist >>

\* Widget::layout: the node fills the limits, the cache is neither borrowed
\* nor resolved.
Layout ==
    \E size \in Sizes :
        /\ ~panicked
        /\ last' = Call("layout", Some(size), << >>, None, Quiet, Quiet, FALSE, "n/a")
        /\ shell' = Quiet
        /\ UNCHANGED << view, content, tree, borrows, overlay, panicked,
                        reconciled, hist >>

\* The state a11y_nodes may find in the Tree it is given: the State that
\* Widget::state makes, or the Rc<RefCell<Option<Tree>>> it downcasts to,
\* holding nothing or a tree with that many children.
A11yTreeStates ==
    { [state |-> "State",   children |-> 0],
      [state |-> "rc_none", children |-> 0],
      [state |-> "rc_some", children |-> 0],
      [state |-> "rc_some", children |-> 1] }

\* Widget::a11y_nodes (feature a11y): the state is downcast to
\* Rc<RefCell<Option<Tree>>>, which panics on a State. Holding no tree, the
\* default A11yTree is returned and nothing is borrowed or called. Holding a
\* tree, the content is borrowed shared, then the first child is indexed,
\* then the query goes to the cached subtree with the widget's own layout;
\* the cache is not resolved.
A11yNodes ==
    \E size \in Sizes, st \in A11yTreeStates :
        LET returned ==
                IF st.state = "State" THEN "downcast"
                ELSE IF st.state = "rc_none" THEN "default"
                ELSE IF ~BorrowMutOk(borrows.content) THEN "panic"
                ELSE IF st.children = 0 THEN "index"
                ELSE "n/a"
        IN  /\ ~panicked
            /\ panicked' = (returned \in {"downcast", "panic", "index"})
            /\ last' = Call("a11y_nodes", Some(size),
                            IF returned = "n/a" THEN << "forward" >> ELSE << >>,
                            None, Quiet, Quiet, FALSE, returned)
            /\ shell' = Quiet
            /\ UNCHANGED << view, content, tree, borrows, overlay, reconciled, hist >>

\* Widget::id and Widget::set_id: the content is borrowed and the call goes to
\* the cached subtree, the cache is not resolved.
IdAccess ==
    \E op \in {"id", "set_id"} :
        /\ ~panicked
        /\ panicked' = ~BorrowMutOk(borrows.content)
        /\ last' = Call(op, None, IF panicked' THEN << >> ELSE << "forward" >>,
                        None, Quiet, Quiet, FALSE,
                        IF panicked' THEN "panic" ELSE "n/a")
        /\ shell' = Quiet
        /\ UNCHANGED << view, content, tree, borrows, overlay, reconciled, hist >>

\* The application's view runs again: Responsive::new makes a new widget with
\* a new closure and a new Content. The state tree node is kept when the
\* widget takes the place of a Responsive, or made by Widget::state otherwise.
New ==
    \E v \in Views, fresh \in BOOLEAN :
        /\ ~panicked
        /\ overlay = None
        /\ view' = v
        /\ content' = NewContent
        /\ tree' = IF fresh THEN EmptyTree ELSE tree
        /\ reconciled' = [ever |-> ~fresh /\ reconciled.ever, inst |-> 0]
        /\ hist' = [pristine |-> fresh \/ ~reconciled.ever, sizes |-> {},
                    prev |-> None, resolves |-> 0, builds |-> 0]
        /\ last' = Call("new", None, << >>, None, Quiet, Quiet, FALSE, "n/a")
        /\ shell' = Quiet
        /\ UNCHANGED << borrows, overlay, panicked >>

Next ==
    \/ Operate
    \/ Draw
    \/ MouseInteraction
    \/ DragDestinations
    \/ OnEvent
    \/ Overlay
    \/ OverlayOnEvent
    \/ OverlayForward
    \/ OverlayDrop
    \/ Layout
    \/ A11yNodes
    \/ IdAccess
    \/ New

Spec == Init /\ [][Next]_vars


\* ------------------------------------------------------------------ claims
\* A step in which a call resolved the cache.
ResolveStep == hist'.resolves = hist.resolves + 1

\* C1: N >= 1 consecutive resolves at one size, on a new Content with a state
\* tree that was never diffed, call the builder exactly once in total,
\* whatever subtree the builder returns.
C1_OneBuildPerSize ==
    (hist.pristine /\ hist.resolves >= 1 /\ Cardinality(hist.sizes) = 1)
        => hist.builds = 1

\* C2: a resolve at a size S2 that differs from the size S1 of the resolve
\* before it calls the builder once, with S2, sets target_size to S2 and
\* computes a new layout with minimum zero and maximum S2.
C2_SizeChangeRebuilds ==
    [][ (ResolveStep /\ hist.prev # None /\ hist'.prev # hist.prev) =>
          LET S2 == hist'.prev[1]
              c == last'.resolved[1]
          IN  /\ hist'.builds = hist.builds + 1
              /\ c.element.inst = hist'.builds
              /\ c.element.for = Some(S2)
              /\ c.size = S2
              /\ Ran(last'.steps, "layout")
              /\ c.layout = Some([elem |-> c.element.inst, min |-> ZERO, max |-> S2])
      ]_vars

C2_Witness ==
    /\ hist.resolves = 2
    /\ Cardinality(hist.sizes) > 1
    /\ last.resolved # None
    /\ last.resolved[1].size = hist.prev[1]
    /\ last.resolved[1].layout # None

\* C3: when the subtree raises the layout invalidation during
\* Responsive::on_event, the call returns with the layout absent and with the
\* subtree and target_size it had right after its resolve step; no subtree is
\* built because of the signal.
C3_InvalidationClearsLayoutOnly ==
    (last.op = "on_event" /\ last.inval) =>
        /\ content.layout = None
        /\ content.element = last.resolved[1].element
        /\ content.size = last.resolved[1].size
        /\ Len(SelectSeq(last.steps, LAMBDA x : x = "view")) <= 1
        /\ content.element.inst <= hist.builds

C3_Witness ==
    /\ last.op = "on_event"
    /\ last.inval
    /\ last.resolved[1].layout # None
    /\ content.layout = None

\* The operations that acquire the content and the state tree.
Acquiring ==
    {"overlay", "operate", "on_event", "draw", "mouse_interaction", "drag_destinations"}

\* C4: each cell has at most one live mutable borrow, and a call that tries to
\* acquire them while an Overlay is alive panics at the acquisition, leaving
\* the cache, the state tree and the borrows as they were.
C4_ExclusiveAccess ==
    /\ [](borrows.content <= 1 /\ borrows.tree <= 1)
    /\ [][ (overlay # None /\ last' # last /\ last'.op \in Acquiring) =>
             /\ panicked'
             /\ last'.returned = "panic"
             /\ UNCHANGED << content, tree, borrows, overlay, reconciled, hist >>
         ]_vars

C4_Witness ==
    /\ overlay # None
    /\ borrows.content = 1
    /\ borrows.tree = 1
    /\ panicked
    /\ last.op = "overlay"
    /\ last.returned = "panic"

\* C5: Responsive::overlay returns None exactly when the overlay query of the
\* resolved subtree returns none, so every Overlay handed out holds a nested
\* overlay.
C5_OverlayIffNested ==
    /\ overlay # None => overlay[1].nested
    /\ (last.op = "overlay" /\ last.returned # "panic") =>
          /\ (last.returned = "some") <=> last.nested
          /\ (last.returned = "none") <=> ~last.nested
          /\ (overlay # None) <=> last.nested
          /\ last.nested => last.resolved[1].element.overlay

C5_Witness ==
    /\ last.op = "overlay"
    /\ last.returned = "some"
    /\ last.nested
    /\ overlay # None

\* C6: after Responsive::on_event the caller's shell holds the messages it
\* held before, followed by every message the subtree published, each once
\* and in the order of publication.
C6_MessagesInOrder ==
    (last.op = "on_event" /\ last.returned # "panic") =>
        shell.messages = last.pre.messages \o last.emitted

C6_Witness ==
    /\ last.op = "on_event"
    /\ Len(last.emitted) >= 2
    /\ shell.messages = last.emitted

\* C7: a resolve on a state tree that was never diffed calls the builder and
\* diffs the state tree against the new subtree, for every size, the zero size
\* included.
C7_FirstUseBuilds ==
    [][ (ResolveStep /\ ~reconciled.ever) =>
          LET c == last'.resolved[1]
          IN  /\ hist'.builds = hist.builds + 1
              /\ c.element.for = hist'.prev
              /\ c.element.inst = hist'.builds
              /\ Ran(last'.steps, "diff")
              /\ reconciled' = [ever |-> TRUE, inst |-> c.element.inst]
      ]_vars

C7_Witness ==
    /\ hist.resolves = 1
    /\ hist.prev = Some(ZERO)
    /\ last.resolved # None
    /\ last.resolved[1].element.for = Some(ZERO)
    /\ reconciled.ever

\* C8: after a resolve at size S, target_size is S, the subtree is the one the
\* builder made for S and the state tree has been diffed against it; also for
\* a new Content on a state tree diffed by an earlier widget.
C8_ResolvedMatchesSize ==
    last.resolved # None =>
        LET c == last.resolved[1]
        IN  /\ c.size = last.size[1]
            /\ c.element.for = last.size
            /\ reconciled.ever
            /\ reconciled.inst = c.element.inst

\* C9: a cached layout is the layout of the current subtree under limits from
\* zero to the current target_size.
C9_LayoutMatchesContent ==
    content.layout # None =>
        content.layout[1] =
            [elem |-> content.element.inst, min |-> ZERO, max |-> content.size]

C9_Witness ==
    /\ hist.builds >= 2
    /\ Cardinality(hist.sizes) > 1
    /\ content.layout # None

\* C10: a resolve at target_size, on a state tree that was diffed before and
\* with the layout present, leaves the content as it is and runs neither the
\* builder, nor the diff, nor the layout.
C10_NoRebuildPath ==
    [][ (ResolveStep /\ reconciled.ever /\ content.layout # None
            /\ hist'.prev = Some(content.size)) =>
          /\ last'.resolved = Some(content)
          /\ ~Ran(last'.steps, "view")
          /\ ~Ran(last'.steps, "diff")
          /\ ~Ran(last'.steps, "layout")
      ]_vars

\* C11: after an event dispatch cleared the layout on an invalidation, the
\* next resolve at the same size computes the layout once, for the unchanged
\* subtree and size, and does not run the builder; a resolve at that size
\* with the layout present computes no layout.
C11_RelayoutWithoutRebuild ==
    [][ (ResolveStep /\ hist.prev = Some(content.size)
            /\ hist'.prev = Some(content.size)) =>
          IF content.layout = None
          THEN /\ ~Built(last'.steps)
               /\ last'.steps = << "layout", "forward" >>
               /\ last'.resolved # None
               /\ last'.resolved[1].element = content.element
               /\ last'.resolved[1].size = content.size
               /\ last'.resolved[1].layout =
                      Some(ElementLayout(content.element, Limits(ZERO, content.size)))
          ELSE ~Ran(last'.steps, "layout")
      ]_vars

\* C12: when the nested overlay raises a layout invalidation during
\* Overlay::on_event, the call leaves the layout absent and the subtree and
\* the size as they were, and the first resolve after the overlay is dropped
\* computes the layout again without running the builder.
C12_OverlayInvalidationRelayout ==
    [][ /\ (last'.op = "overlay.on_event" /\ last'.inval) =>
              /\ content'.layout = None
              /\ content'.element = content.element
              /\ content'.size = content.size
              /\ tree' = tree
        /\ (last.op = "overlay.drop" /\ content.layout = None /\ ResolveStep) =>
              /\ Ran(last'.steps, "layout")
              /\ ~Built(last'.steps)
      ]_vars

\* C13: an event dispatch during which the callee (the subtree for
\* Responsive::on_event, the nested overlay for Overlay::on_event) raises no
\* layout invalidation leaves the cached layout as it was, whatever the
\* caller's shell already held, a layout-invalid flag included.
C13_NoInvalidationKeepsLayout ==
    [][ /\ (last'.op = "on_event" /\ last'.resolved # None /\ ~last'.inval) =>
              content'.layout = last'.resolved[1].layout
        /\ (last'.op = "overlay.on_event" /\ ~last'.inval) =>
              content'.layout = content.layout
      ]_vars

\* The operations of the widget that C14 names.
VisibleOps ==
    {"layout", "draw", "on_event", "operate", "a11y_nodes",
     "drag_destinations", "mouse_interaction"}

\* C14: every call of a visible operation that returns has resolved the cache
\* with its bounds before it forwarded, so the subtree it forwarded to was
\* built for the size of those bounds, which is also the cached size.
C14_ResolveBeforeForward ==
    (last.op \in VisibleOps /\ ~panicked) =>
        /\ last.resolved # None
        /\ Ran(last.steps, "forward")
        /\ Some(last.resolved[1].size) = last.size
        /\ last.resolved[1].element.for = last.size

\* C15: the guards of the two cells are held exactly while an overlay object
\* is alive: an overlay query that finds no nested overlay has released them
\* when it returns, one that finds a nested overlay keeps them until the
\* overlay object is dropped, every other operation returns with them
\* released, and no call made while no overlay is alive aborts on a borrow.
C15_GuardsFollowOverlay ==
    /\ [](/\ borrows.content = (IF overlay = None THEN 0 ELSE 1)
          /\ borrows.tree = borrows.content
          /\ (last.op = "overlay" /\ last.returned = "none") => overlay = None
          /\ (last.op = "overlay" /\ last.returned = "some") =>
                 (overlay # None /\ last.nested))
    /\ [][ /\ (overlay = None) => last'.returned # "panic"
           /\ (overlay # None /\ overlay' = None) => last'.op = "overlay.drop"
           /\ (overlay = None /\ overlay' # None) =>
                 (last'.op = "overlay" /\ last'.returned = "some")
       ]_vars

C15_Witness ==
    /\ last.op = "overlay.drop"
    /\ overlay = None
    /\ borrows = [content |-> 0, tree |-> 0]
    /\ hist.resolves >= 2
    /\ ~panicked

\* C16: when Responsive::on_event returns, the caller's shell carries what the
\* subtree raised: its messages after the caller's own, layout-invalid if
\* the subtree invalidated the layout, and not layout-invalid if the subtree
\* did not and the shell was not invalid before the call.
C16_CallerShellCarriesEffects ==
    (last.op = "on_event" /\ last.resolved # None /\ ~panicked) =>
        /\ shell.messages = last.pre.messages \o last.emitted
        /\ last.inval => shell.layout_invalid
        /\ (~last.inval /\ ~last.pre.layout_invalid) => ~shell.layout_invalid

C16_Witness ==
    /\ last.op = "on_event"
    /\ ~panicked
    /\ last.inval
    /\ ~last.pre.layout_invalid
    /\ shell.layout_invalid
    /\ content.layout = None
    /\ Len(last.emitted) > 0

\* C17: a resolve that rebuilds runs the builder, then the diff, then the
\* layout, then the forwarded operation, so the layout it computes and the
\* call it forwards see a state tree that was diffed against the very subtree
\* that is laid out and called.
C17_RebuildOrder ==
    (last.resolved # None /\ Built(last.steps) /\ ~panicked) =>
        /\ last.steps = << "view", "diff", "layout", "forward" >>
        /\ reconciled.ever
        /\ reconciled.inst = last.resolved[1].element.inst
        /\ tree.tag = last.resolved[1].element.tag
        /\ tree.children = last.resolved[1].element.children
        /\ last.resolved[1].layout # None
        /\ last.resolved[1].layout[1].elem = last.resolved[1].element.inst

C17_Witness ==
    /\ last.resolved # None
    /\ Built(last.steps)
    /\ Ran(last.steps, "forward")
    /\ hist.builds >= 2
    /\ ~IsTreeEmpty(tree)
    /\ ~panicked

\* C18: where Content::resolve and the overlay builder unwrap the layout slot,
\* the layout is present: every resolve hands a layout on, and no call panics
\* at the unwrap.
C18_LayoutPresentAtUnwrap ==
    /\ last.resolved # None => last.resolved[1].layout # None
    /\ panicked => last.returned \in {"panic", "downcast", "index"}

C18_Witness ==
    /\ last.op = "overlay"
    /\ last.steps = << "layout", "forward" >>
    /\ last.resolved # None
    /\ last.resolved[1].layout # None
    /\ hist.resolves >= 2
    /\ ~panicked

====
